---- MODULE Spec2Model ----
(***************************************************************************)
(* Model of diff-check.py: the log comparison utility of the emulator.     *)
(*                                                                         *)
(* Strings are sequences of one-character strings, so that str.split can   *)
(* be modelled by what it does.  A Python dict is a sequence of            *)
(* <<key, value>> pairs with pairwise distinct keys, in insertion order.   *)
(* The dict {1: a, 2: b} of a diff entry is the tuple <<a, b>>.            *)
(* Python indices are 0-based: element i of a list x is x[i + 1].          *)
(***************************************************************************)
EXTENDS Integers, Sequences, FiniteSets, TLC

VARIABLES
    pc,          \* position in the code being run
    log1, log2,  \* main: the lines read from log_em1.txt and log_em2.txt
    ignored,     \* main: the ignored keys (--i=)
    limit,       \* main: the mistake limit (--l=)
    i,           \* main: the loop variable of the scan, -1 before the loop
    mistakes,    \* main: the recorded mistake indices
    examined,    \* main: the indices whose line pair the loop has fetched
    out,         \* main: what was printed, one tuple per print call
    vals,        \* ranges: its argument
    mis_ranges,  \* ranges: the value returned
    l,           \* parse: its argument
    pl1,         \* parse: the value returned
    line1, line2,\* diff_lines: its arguments
    diff,        \* the dict built at lines 53-57 for line1, line2, ignored
    prev_diff    \* diff_lines: the value returned

vars == <<pc, log1, log2, ignored, limit, i, mistakes, examined, out,
          vals, mis_ranges, l, pl1, line1, line2, diff, prev_diff>>

mainVars == <<log1, log2, ignored, limit, i, mistakes, examined, out>>
rangesVars == <<vals, mis_ranges>>
parseVars == <<l, pl1>>
diffVars == <<line1, line2, diff, prev_diff>>

----------------------------------------------------------------------------
(* Bounds of the model. *)

MaxLines == 3      \* longest log, in lines
MaxLimit == 2      \* largest mistake limit
MaxVal == 4        \* largest integer handed to ranges
MaxLen == 4        \* longest list handed to ranges
MaxParseLen == 5   \* longest line handed to parse alone
MaxSegs == 2       \* most segments of a line handed to the line differ

RECURSIVE SeqsUpTo(_, _)
SeqsUpTo(S, n) ==
    IF n = 0 THEN {<<>>}
    ELSE LET shorter == SeqsUpTo(S, n - 1)
         IN  shorter \cup {Append(s, x) : s \in shorter, x \in S}

----------------------------------------------------------------------------
(* Python primitives. *)

\* str.split(sep) for a one-character separator: the pieces between the
\* separators, empty pieces included; always one piece more than separators.
RECURSIVE SplitFrom(_, _, _, _)
SplitFrom(s, sep, cur, acc) ==
    IF s = <<>> THEN Append(acc, cur)
    ELSE IF Head(s) = sep
         THEN SplitFrom(Tail(s), sep, <<>>, Append(acc, cur))
         ELSE SplitFrom(Tail(s), sep, Append(cur, Head(s)), acc)

split(s, sep) == SplitFrom(s, sep, <<>>, <<>>)

\* k in d.keys()
HasKey(d, k) == \E n \in 1..Len(d) : d[n][1] = k

\* d[k], for a key of d
Get(d, k) == d[CHOOSE n \in 1..Len(d) : d[n][1] = k][2]

\* d[k] = v: a new key goes last, a known key keeps its place
DictSet(d, k, v) ==
    IF HasKey(d, k)
    THEN LET n == CHOOSE m \in 1..Len(d) : d[m][1] = k
         IN  SubSeq(d, 1, n - 1) \o <<<<k, v>>>> \o SubSeq(d, n + 1, Len(d))
    ELSE Append(d, <<k, v>>)

\* sorted(vals): insertion sort
RECURSIVE Insert(_, _)
Insert(s, x) ==
    IF s = <<>> THEN <<x>>
    ELSE IF x < Head(s) THEN <<x>> \o s
         ELSE <<Head(s)>> \o Insert(Tail(s), x)

RECURSIVE SortFrom(_, _)
SortFrom(rest, acc) ==
    IF rest = <<>> THEN acc ELSE SortFrom(Tail(rest), Insert(acc, Head(rest)))

sorted_unsorted(v) == v

sorted(v) == SortFrom(v, <<>>)

----------------------------------------------------------------------------
(* parse *)

RECURSIVE ParseFrom(_, _)
ParseFrom(rs, acc) ==
    IF rs = <<>> THEN acc
    ELSE LET p == split(Head(rs), ":")
         IN  ParseFrom(Tail(rs),
                       IF Len(p) > 1 THEN DictSet(acc, p[1], p[2]) ELSE acc)

parse(line) == ParseFrom(split(line, "/"), <<>>)

----------------------------------------------------------------------------
(* ranges *)

RECURSIVE RangesLoop(_, _, _)
RangesLoop(rest, current, rs) ==
    IF rest = <<>>
    THEN Append(rs, <<current[1], current[Len(current)]>>)
    ELSE LET v == Head(rest)
             brk == v # current[Len(current)] + 1
         IN  RangesLoop(Tail(rest),
                        Append(IF brk THEN <<>> ELSE current, v),
                        IF brk
                        THEN Append(rs, <<current[1], current[Len(current)]>>)
                        ELSE rs)

ranges(v) ==
    IF v = <<>> THEN <<>>
    ELSE LET s == sorted(v)
         IN  RangesLoop(Tail(s), <<s[1]>>, <<>>)

----------------------------------------------------------------------------
(* The field diffs. *)

NotSet == <<"(", "n", "o", "t", " ", "s", "e", "t", ")">>

DiffEntry(k, r1, r2) ==
    <<k, <<Get(r1, k), IF HasKey(r2, k) THEN Get(r2, k) ELSE NotSet>>>>

\* the condition of diff_lines' comprehension
DiffLinesCond(k, r1, r2) == ~HasKey(r2, k) \/ Get(r1, k) # Get(r2, k)

RECURSIVE DiffLinesFrom(_, _, _, _)
DiffLinesFrom(n, r1, r2, acc) ==
    IF n > Len(r1) THEN acc
    ELSE LET k == r1[n][1]
         IN  DiffLinesFrom(n + 1, r1, r2,
                 IF DiffLinesCond(k, r1, r2)
                 THEN Append(acc, DiffEntry(k, r1, r2)) ELSE acc)

diff_lines(a, b) == DiffLinesFrom(1, parse(a), parse(b), <<>>)

DiffCond_ignoredKept(k, r1, r2, ign) ==
    ~HasKey(r2, k) \/ Get(r1, k) # Get(r2, k)

DiffCond_presentOnly(k, r1, r2, ign) ==
    (HasKey(r2, k) /\ Get(r1, k) # Get(r2, k)) /\ k \notin ign

\* the condition of the comprehension in main
DiffCond(k, r1, r2, ign) ==
    (~HasKey(r2, k) \/ Get(r1, k) # Get(r2, k)) /\ k \notin ign

RECURSIVE MainDiffFrom(_, _, _, _, _)
MainDiffFrom(n, r1, r2, ign, acc) ==
    IF n > Len(r1) THEN acc
    ELSE LET k == r1[n][1]
         IN  MainDiffFrom(n + 1, r1, r2, ign,
                 IF DiffCond(k, r1, r2, ign)
                 THEN Append(acc, DiffEntry(k, r1, r2)) ELSE acc)

\* the dict main builds for the pair (a, b)
MainDiff(a, b, ign) == MainDiffFrom(1, parse(a), parse(b), ign, <<>>)

----------------------------------------------------------------------------
(* main *)

LengthsDiffer_longerFirst(a, b) == Len(a) > Len(b)

LengthsDiffer(a, b) == Len(a) # Len(b)

LimitExceeded_never(m, lim) == FALSE

LimitExceeded_offByOne(m, lim) == Len(m) > lim + 1

LimitExceeded(m, lim) == Len(m) > lim

Recorded_lineNumber(m, n) == Append(m, n + 1)

\* mistakes += [i]
Recorded(m, n) == Append(m, n)

\* one pass of the loop over j for the mistake at index n
Context(n, j) ==
    LET p == n - (3 - j)
    IN  IF p < 0 THEN <<>>
        ELSE LET pd == diff_lines(log1[p + 1], log2[p + 1])
             IN  <<<<"Previous", 3 - j, log1[p + 1]>>>>
                 \o (IF pd # <<>> THEN <<<<"diff was", pd>>>> ELSE <<>>)

\* everything printed for the mistake at index n with diff d
Block(n, d) ==
    <<<<"diff on line", n, d>>>>
    \o Context(n, 0) \o Context(n, 1) \o Context(n, 2)
    \o <<<<"Emulator 1", log1[n + 1]>>, <<"Emulator 2", log2[n + 1]>>>>

rangesIdle == vals = <<>>
parseIdle == l = <<>> /\ pl1 = <<>>
diffIdle == line1 = <<>> /\ line2 = <<>> /\ diff = <<>> /\ prev_diff = <<>>

\* lines 41-43: the logs differ in length
LengthMismatch ==
    /\ pc = "main"
    /\ LengthsDiffer(log1, log2)
    /\ out' = Append(out, <<"Log lengths are different!", log1, log2>>)
    /\ pc' = "returned"
    /\ UNCHANGED <<log1, log2, ignored, limit, i, mistakes, examined>>
    /\ UNCHANGED <<rangesVars, parseVars, diffVars>>

\* line 45: the logs are equally long, the scan begins
StartScan ==
    /\ pc = "main"
    /\ ~LengthsDiffer(log1, log2)
    /\ mistakes' = <<>>
    /\ pc' = "scan"
    /\ UNCHANGED <<log1, log2, ignored, limit, i, examined, out>>
    /\ UNCHANGED <<rangesVars, parseVars, diffVars>>

\* lines 47-50: the next pair of lines is identical
SkipIdentical ==
    /\ pc = "scan"
    /\ i + 1 < Len(log1)
    /\ log1[i + 2] = log2[i + 2]
    /\ i' = i + 1
    /\ examined' = examined \cup {i + 1}
    /\ UNCHANGED <<pc, log1, log2, ignored, limit, mistakes, out>>
    /\ UNCHANGED <<rangesVars, parseVars, diffVars>>

\* lines 47-59: the next pair differs as text, its diff is empty
SkipNoDiff ==
    /\ pc = "scan"
    /\ i + 1 < Len(log1)
    /\ log1[i + 2] # log2[i + 2]
    /\ MainDiff(log1[i + 2], log2[i + 2], ignored) = <<>>
    /\ i' = i + 1
    /\ examined' = examined \cup {i + 1}
    /\ UNCHANGED <<pc, log1, log2, ignored, limit, mistakes, out>>
    /\ UNCHANGED <<rangesVars, parseVars, diffVars>>

\* lines 47-71: the next pair is a mistake and the limit is not exceeded
RecordMistake ==
    /\ pc = "scan"
    /\ i + 1 < Len(log1)
    /\ log1[i + 2] # log2[i + 2]
    /\ LET d == MainDiff(log1[i + 2], log2[i + 2], ignored)
       IN  /\ d # <<>>
           /\ ~LimitExceeded(Recorded(mistakes, i + 1), limit)
           /\ out' = out \o Block(i + 1, d)
    /\ mistakes' = Recorded(mistakes, i + 1)
    /\ i' = i + 1
    /\ examined' = examined \cup {i + 1}
    /\ UNCHANGED <<pc, log1, log2, ignored, limit>>
    /\ UNCHANGED <<rangesVars, parseVars, diffVars>>

\* lines 47-73: the next pair is a mistake and the limit is exceeded
RecordAndBreak ==
    /\ pc = "scan"
    /\ i + 1 < Len(log1)
    /\ log1[i + 2] # log2[i + 2]
    /\ LET d == MainDiff(log1[i + 2], log2[i + 2], ignored)
       IN  /\ d # <<>>
           /\ LimitExceeded(Recorded(mistakes, i + 1), limit)
           /\ out' = Append(out \o Block(i + 1, d),
                            <<"ending because too many mistakes">>)
    /\ mistakes' = Recorded(mistakes, i + 1)
    /\ i' = i + 1
    /\ examined' = examined \cup {i + 1}
    /\ pc' = "report"
    /\ UNCHANGED <<log1, log2, ignored, limit>>
    /\ UNCHANGED <<rangesVars, parseVars, diffVars>>

\* line 47: range(len(log1)) is exhausted
ScanDone ==
    /\ pc = "scan"
    /\ i + 1 >= Len(log1)
    /\ pc' = "report"
    /\ UNCHANGED <<mainVars, rangesVars, parseVars, diffVars>>

\* lines 75-84: the final summary
Report ==
    /\ pc = "report"
    /\ IF Len(mistakes) = 0
       THEN /\ out' = Append(out, <<"no mistakes found! celebrate!">>)
            /\ UNCHANGED mis_ranges
       ELSE /\ mis_ranges' = ranges(mistakes)
            /\ out' = Append(out, <<"mistakes are", ranges(mistakes)>>)
    /\ pc' = "done"
    /\ UNCHANGED <<log1, log2, ignored, limit, i, mistakes, examined, vals>>
    /\ UNCHANGED <<parseVars, diffVars>>

\* the lines the two logs are made of
Lines ==
    { <<"k", ":", "1", "/", "a", ":", "1", "\n">>,
      <<"k", ":", "2", "/", "a", ":", "1", "\n">>,
      <<"k", ":", "1", "/", "x", "\n">> }

IgnoredChoices == { {}, {<<"k">>} }

Init ==
    /\ pc = "main"
    /\ log1 \in SeqsUpTo(Lines, MaxLines)
    /\ log2 \in SeqsUpTo(Lines, MaxLines)
    /\ ignored \in IgnoredChoices
    /\ limit \in -1..MaxLimit
    /\ i = -1
    /\ mistakes = <<>>
    /\ examined = {}
    /\ out = <<>>
    /\ mis_ranges = <<>>
    /\ rangesIdle /\ parseIdle /\ diffIdle

Next ==
    \/ LengthMismatch
    \/ StartScan
    \/ SkipIdentical
    \/ SkipNoDiff
    \/ RecordMistake
    \/ RecordAndBreak
    \/ ScanDone
    \/ Report

Spec == Init /\ [][Next]_vars

----------------------------------------------------------------------------
(* ranges on its own: every list over 0..MaxVal of at most MaxLen values. *)

CallRanges ==
    /\ pc = "call ranges"
    /\ mis_ranges' = ranges(vals)
    /\ pc' = "ranges returned"
    /\ UNCHANGED <<vals, mainVars, parseVars, diffVars>>

mainIdle ==
    /\ log1 = <<>> /\ log2 = <<>> /\ limit = 0 /\ i = -1
    /\ mistakes = <<>> /\ examined = {} /\ out = <<>>

InitRanges ==
    /\ pc = "call ranges"
    /\ vals \in SeqsUpTo(0..MaxVal, MaxLen)
    /\ mis_ranges = <<>>
    /\ ignored = {}
    /\ mainIdle /\ parseIdle /\ diffIdle

SpecRanges == InitRanges /\ [][CallRanges]_vars

----------------------------------------------------------------------------
(* parse on its own: every line over Chars of at most MaxParseLen         *)
(* characters.                                                            *)

Chars == {"a", "1", ":", "/"}

CallParse ==
    /\ pc = "call parse"
    /\ pl1' = parse(l)
    /\ pc' = "parse returned"
    /\ UNCHANGED <<l, mainVars, rangesVars, diffVars>>

InitParse ==
    /\ pc = "call parse"
    /\ l \in SeqsUpTo(Chars, MaxParseLen)
    /\ pl1 = <<>>
    /\ ignored = {}
    /\ mis_ranges = <<>>
    /\ mainIdle /\ rangesIdle /\ diffIdle

SpecParse == InitParse /\ [][CallParse]_vars

----------------------------------------------------------------------------
(* The two field diffs on their own: every pair of lines of at most       *)
(* MaxSegs segments drawn from Segments, under each choice of ignored     *)
(* keys.                                                                  *)

Segments ==
    { <<"a", ":", "1">>, <<"a", ":", "2">>,
      <<"k", ":", "1">>, <<"k", ":", "2">>,
      <<"b", ":", "1">>, <<"x">> }

\* "/".join(segs)
RECURSIVE join(_)
join(segs) ==
    IF segs = <<>> THEN <<>>
    ELSE IF Len(segs) = 1 THEN segs[1]
         ELSE segs[1] \o <<"/">> \o join(Tail(segs))

DiffLineChoices == {join(segs) : segs \in SeqsUpTo(Segments, MaxSegs)}

CallDiff ==
    /\ pc = "call diff"
    /\ diff' = MainDiff(line1, line2, ignored)
    /\ prev_diff' = diff_lines(line1, line2)
    /\ pc' = "diff returned"
    /\ UNCHANGED <<line1, line2, mainVars, rangesVars, parseVars>>

InitDiff ==
    /\ pc = "call diff"
    /\ line1 \in DiffLineChoices
    /\ line2 \in DiffLineChoices
    /\ ignored \in IgnoredChoices
    /\ diff = <<>>
    /\ prev_diff = <<>>
    /\ mis_ranges = <<>>
    /\ mainIdle /\ rangesIdle /\ parseIdle

SpecDiff == InitDiff /\ [][CallDiff]_vars

----------------------------------------------------------------------------
(* What the claims speak of, stated without the code's loops. *)

\* the keys of a parsed record
KeySet(r) == {r[n][1] : n \in 1..Len(r)}

\* the keys a field diff of lines a and b must hold under the ignored keys
\* ign: those of side 1 that are not ignored and are absent from side 2 or
\* differ in value
ReportableKeys(a, b, ign) ==
    LET r1 == parse(a)
        r2 == parse(b)
    IN  {k \in KeySet(r1) :
            /\ k \notin ign
            /\ \/ k \notin KeySet(r2)
               \/ \E n \in 1..Len(r1), m \in 1..Len(r2) :
                     r1[n][1] = k /\ r2[m][1] = k /\ r1[n][2] # r2[m][2]}

\* d is the field diff of lines a and b under the ignored keys ign
IsFieldDiff(d, a, b, ign) ==
    LET r1 == parse(a)
        r2 == parse(b)
    IN  /\ KeySet(d) = ReportableKeys(a, b, ign)
        /\ Len(d) = Cardinality(KeySet(d))
        /\ \A n \in 1..Len(d) :
              LET k == d[n][1]
              IN  /\ \E m \in 1..Len(r1) : r1[m] = <<k, d[n][2][1]>>
                  /\ IF k \in KeySet(r2)
                     THEN \E m \in 1..Len(r2) : r2[m] = <<k, d[n][2][2]>>
                     ELSE d[n][2][2] = NotSet

\* the values of a list
Values(s) == {s[n] : n \in 1..Len(s)}

\* the integers an inclusive range covers
Covered(r) == r[1]..r[2]

----------------------------------------------------------------------------
(* The claims. *)

\* C1: after a scan of equally long logs that ran to completion (the limit
\* was not exceeded), a line index is in the mistake list if and only if
\* the field diff of its line pair, over side 1's keys and without the
\* ignored keys, is non-empty.
C1_MistakeIffDiffNonEmpty ==
    (pc \in {"report", "done"} /\ Len(mistakes) <= limit) =>
        \A n \in 0..(Len(log1) - 1) :
            (n \in Values(mistakes))
                <=> (ReportableKeys(log1[n + 1], log2[n + 1], ignored) # {})

\* C1 witness: a completed scan that recorded a mistake and passed over a
\* pair of lines that differ as text, one of them only on the ignored key.
C1_Witness ==
    /\ pc = "done"
    /\ Len(mistakes) <= limit
    /\ mistakes # <<>>
    /\ ignored = {<<"k">>}
    /\ \E n \in 0..(Len(log1) - 1) :
          /\ log1[n + 1] # log2[n + 1]
          /\ n \notin Values(mistakes)
          /\ parse(log1[n + 1]) # parse(log2[n + 1])

\* C2: parse splits a segment on its first ':' only: the value recorded for
\* a key is the whole text after the first ':' of the last segment with
\* that key, later ':' included.
C2_SplitOnFirstColonOnly ==
    pc = "parse returned" =>
        LET segs == split(l, "/")
            HasColon(r) == \E n \in 1..Len(r) : r[n] = ":"
            First(r) == CHOOSE n \in 1..Len(r) :
                           r[n] = ":" /\ \A m \in 1..(n - 1) : r[m] # ":"
            Key(r) == SubSeq(r, 1, First(r) - 1)
            Rest(r) == SubSeq(r, First(r) + 1, Len(r))
        IN  \A n \in 1..Len(segs) :
                (/\ HasColon(segs[n])
                 /\ \A m \in (n + 1)..Len(segs) :
                       HasColon(segs[m]) => Key(segs[m]) # Key(segs[n]))
                => \E m \in 1..Len(pl1) :
                      pl1[m] = <<Key(segs[n]), Rest(segs[n])>>

\* C3: once a recorded mistake takes the count over the limit the scan is
\* over: the scan has left the loop, the last index fetched is that last
\* mistake, no later index was examined or recorded, and no range of the
\* summary reaches past it.
C3_ScanStopsAtLimit ==
    (mistakes # <<>> /\ Len(mistakes) > limit) =>
        LET last == mistakes[Len(mistakes)]
        IN  /\ pc \in {"report", "done"}
            /\ i = last
            /\ \A n \in examined : n <= last
            /\ \A n \in Values(mistakes) : n <= last
            /\ pc = "done" =>
                  /\ \A n \in 1..Len(mis_ranges) : mis_ranges[n][2] <= last
                  /\ out[Len(out)] = <<"mistakes are", mis_ranges>>

\* C3 witness: the scan was cut short with lines left, the next of which
\* would have been a mistake, and the summary was printed.
C3_Witness ==
    /\ pc = "done"
    /\ limit >= 1
    /\ Len(mistakes) > limit
    /\ i + 1 < Len(log1)
    /\ ReportableKeys(log1[i + 2], log2[i + 2], ignored) # {}

\* C4 as claimed: the number of recorded mistakes never exceeds the limit.
C4_AtMostLimit == limit >= 0 => Len(mistakes) <= limit

\* C4 as amended: the number of recorded mistakes is at most the limit plus
\* one, and at most one for a negative limit.
C4_AtMostLimitPlusOne ==
    Len(mistakes) <= (IF limit > 0 THEN limit ELSE 0) + 1

\* C4 witness: a finished run with one mistake more than a positive limit.
C4_Witness == pc = "done" /\ limit >= 1 /\ Len(mistakes) = limit + 1

\* C5: for pairwise distinct integers in any order, ranges returns inclusive
\* pairs that partition the input: every value lies in exactly one range,
\* a range covers input values only, every range has start <= end, each
\* range starts at least 2 above the end of the one before, a lone value v
\* gives (v, v) and the empty list gives the empty list.
C5_RangesPartition ==
    (pc = "ranges returned" /\ Cardinality(Values(vals)) = Len(vals)) =>
        /\ \A v \in Values(vals) :
              Cardinality({n \in 1..Len(mis_ranges) :
                              v \in Covered(mis_ranges[n])}) = 1
        /\ \A n \in 1..Len(mis_ranges) :
              /\ mis_ranges[n][1] <= mis_ranges[n][2]
              /\ Covered(mis_ranges[n]) \subseteq Values(vals)
        /\ \A n \in 1..(Len(mis_ranges) - 1) :
              mis_ranges[n + 1][1] >= mis_ranges[n][2] + 2
        /\ vals = <<>> => mis_ranges = <<>>
        /\ Len(vals) = 1 => mis_ranges = <<<<vals[1], vals[1]>>>>

\* C5 witness: an unsorted list of distinct values that gives a run of
\* several values and a lone value.
C5_Witness ==
    /\ pc = "ranges returned"
    /\ Cardinality(Values(vals)) = Len(vals)
    /\ \E n \in 1..(Len(vals) - 1) : vals[n] > vals[n + 1]
    /\ \E n, m \in 1..Len(mis_ranges) :
          /\ mis_ranges[n][1] < mis_ranges[n][2]
          /\ mis_ranges[m][1] = mis_ranges[m][2]

\* C6: for a list with repeated values, no two returned ranges are equal or
\* overlap, and every returned range has start <= end.
C6_NoDuplicateRanges ==
    (pc = "ranges returned" /\ Cardinality(Values(vals)) < Len(vals)) =>
        /\ \A n \in 1..Len(mis_ranges) : mis_ranges[n][1] <= mis_ranges[n][2]
        /\ \A n, m \in 1..Len(mis_ranges) :
              n # m => Covered(mis_ranges[n]) \cap Covered(mis_ranges[m]) = {}

\* C7: when the logs differ in length main prints the length mismatch and
\* nothing else, and returns: no line pair is fetched, no mistake recorded,
\* no per-line block, success message or summary printed.
C7_LengthMismatchStops ==
    Len(log1) # Len(log2) =>
        /\ pc \in {"main", "returned"}
        /\ examined = {}
        /\ mistakes = <<>>
        /\ i = -1
        /\ out = IF pc = "main" THEN <<>>
                 ELSE <<<<"Log lengths are different!", log1, log2>>>>

\* C7 witness: main has returned on logs of different lengths whose first
\* lines would have been a mistake.
C7_Witness ==
    /\ pc = "returned"
    /\ Len(log1) # Len(log2)
    /\ log1 # <<>> /\ log2 # <<>>
    /\ ReportableKeys(log1[1], log2[1], ignored) # {}

\* C8: the diff printed for a context line pair leaves out the ignored
\* keys: no ignored key is among the keys of a printed "diff was".
C8_ContextDiffIgnoresKeys ==
    \A n \in 1..Len(out) :
        out[n][1] = "diff was" => KeySet(out[n][2]) \cap ignored = {}

\* C9: the field diff main builds holds exactly side 1's keys that are not
\* ignored and are absent from side 2 or differ in value, each with side
\* 1's value and side 2's value or "(not set)"; diff_lines builds the same
\* with nothing ignored; a key of side 2 alone is in neither, and both are
\* empty for a line against itself.
C9_FieldDiffContents ==
    pc = "diff returned" =>
        /\ IsFieldDiff(diff, line1, line2, ignored)
        /\ IsFieldDiff(prev_diff, line1, line2, {})
        /\ \A k \in KeySet(parse(line2)) \ KeySet(parse(line1)) :
              k \notin KeySet(diff) /\ k \notin KeySet(prev_diff)
        /\ line1 = line2 => (diff = <<>> /\ prev_diff = <<>>)

\* C9 witness: a diff with a key absent from side 2, while side 2 has a key
\* side 1 lacks and an ignored key differs.
C9_Witness ==
    /\ pc = "diff returned"
    /\ \E n \in 1..Len(diff) : diff[n][2][2] = NotSet
    /\ KeySet(parse(line2)) \ KeySet(parse(line1)) # {}
    /\ Len(prev_diff) > Len(diff)

\* C10: the mistake list is strictly increasing and holds no index above
\* the one the scan is at.
C10_MistakesIncreasing ==
    /\ \A n \in 1..(Len(mistakes) - 1) : mistakes[n] < mistakes[n + 1]
    /\ \A n \in 1..Len(mistakes) : 0 <= mistakes[n] /\ mistakes[n] <= i

\* C10 witness: in mid scan, two mistakes recorded with a gap between them.
C10_Witness ==
    /\ pc = "scan"
    /\ Len(mistakes) >= 2
    /\ mistakes[2] > mistakes[1] + 1

====
